---- MODULE Spec2Model ----
(***************************************************************************)
(* Model of the ecosystem simulation store (src/src/store/simulationStore.ts) *)
(* and of the two components that drive it (Agents.tsx, Controls.tsx).      *)
(*                                                                         *)
(* JavaScript numbers are represented in fixed point:                      *)
(*   time and age          in 1/TimeScale   seconds,                       *)
(*   energy                in 1/EnergyScale energy units,                  *)
(*   position              in 1/PosScale    world units,                   *)
(*   velocity              in 1/VelScale    world units per second,        *)
(*   unit vectors          in 1/UnitScale,                                 *)
(*   speedFactor           in 1/SpeedScale,                                *)
(*   Math.random() results in 1/RandomScale.                               *)
(* Comparisons of a square root with a threshold are made on the squares.  *)
(* showStats, showGrid and selectedAnimal do not influence the agents or   *)
(* the clock and are left out.                                             *)
(***************************************************************************)
EXTENDS Integers, Sequences, FiniteSets, TLC

TimeScale == 10
EnergyScale == 100
PosScale == 100
VelScale == 100
UnitScale == 1000
SpeedScale == 10
RandomScale == 16000

\* Program constants (src/src/store/simulationStore.ts lines 67-69).
WORLD_SIZE == 20
INITIAL_RABBITS == 8
INITIAL_FOXES == 4

\* Bounds of the exploration.
MaxTicks == 2
MaxCommands == 1
MaxControls == 1

VARIABLES
    rabbits,         \* state.rabbits: sequence of agent records
    foxes,           \* state.foxes
    isPaused,        \* state.isPaused
    speedFactor,     \* state.speedFactor
    simulationTime,  \* state.simulationTime
    nextId,          \* the next identifier uuidv4() hands out
    op,              \* the operation that produced this state and its argument
    catches,         \* eatenRabbitId reported by each fox of the last updateAgents (0: none)
    sharedWrites,    \* objects of the previous snapshot written in place by the last updateAgents
    matings,         \* the matings of the last updateAgents: both partners as they were then
    prev,            \* the store as it was before the operation
    ticks, commands, controls   \* exploration budgets: calls made so far

vars == <<rabbits, foxes, isPaused, speedFactor, simulationTime, nextId, op,
          catches, sharedWrites, matings, prev, ticks, commands, controls>>

----------------------------------------------------------------------------
\* Arithmetic helpers.

\* Seeded fault: the bound of Math.min is not applied.
MinUnbounded(a, b) == b

Min(a, b) == IF a < b THEN a ELSE b
Max(a, b) == IF a > b THEN a ELSE b
Abs(a) == IF a < 0 THEN -a ELSE a

\* Division rounding toward zero (the fixed-point image of a real division).
Div(a, b) == IF a >= 0 THEN a \div b ELSE -((-a) \div b)

\* const name = value, for the code Body that follows it: the value is computed
\* once, where the constant is declared.
With(value, Body(_)) == CHOOSE result \in {Body(name) : name \in {value}} : TRUE

RECURSIVE SqrtIter(_, _, _)
SqrtIter(n, lo, hi) ==
    IF lo >= hi THEN lo
    ELSE With((lo + hi + 1) \div 2, LAMBDA mid :
         IF mid * mid <= n THEN SqrtIter(n, mid, hi) ELSE SqrtIter(n, lo, mid - 1))

\* Math.sqrt: the integer square root (floor).
Sqrt(n) == SqrtIter(n, 0, 46340)

----------------------------------------------------------------------------
\* Vector operations.

Vec(x, z) == [x |-> x, y |-> 0, z |-> z]

distanceSquared(a, b) ==
    LET dx == a.x - b.x
        dz == a.z - b.z
    IN  dx * dx + dz * dz

\* The factor by which a vector of squared length n is enlarged before its square
\* root is taken, so that the root keeps three or more significant digits.
Enlarge(n) == IF n < 2000 THEN 1000 ELSE IF n < 200000 THEN 100 ELSE IF n < 20000000 THEN 10 ELSE 1

\* Unit vector (in 1/UnitScale) of v; the zero vector for the zero vector.
normalizeVector(v) ==
    With(v.x * v.x + v.z * v.z, LAMBDA squared :
    With(Enlarge(squared), LAMBDA k :
    With(Sqrt(k * k * squared), LAMBDA magnitude :
    IF magnitude = 0 THEN Vec(0, 0)
    ELSE Vec(Div(v.x * UnitScale * k, magnitude), Div(v.z * UnitScale * k, magnitude)))))

\* velocity = unit vector * speed
Scaled(n, speed) == Vec(Div(n.x * speed, UnitScale), Div(n.z * speed, UnitScale))

\* cos/sin (in 1/UnitScale) of the angle Math.atan2(v.z, v.x); atan2(0, 0) = 0.
Heading(v) == IF v.x = 0 /\ v.z = 0 THEN Vec(UnitScale, 0) ELSE normalizeVector(v)

\* Seeded fault: the turned vector comes out at half its length.
TurnedHalved(n, side) ==
    Vec(Div(4 * n.x - side * 3 * n.z, 10), Div(side * 3 * n.x + 4 * n.z, 10))

\* A unit vector turned by changeAngle, changeAngle = side * atan(3/4)
\* (36.87 degrees, inside the +-45 degrees the code draws from).
Turned(n, side) ==
    Vec(Div(4 * n.x - side * 3 * n.z, 5), Div(side * 3 * n.x + 4 * n.z, 5))

----------------------------------------------------------------------------
\* Agent factory.

\* randomPosition: (Math.random() * 2 - 1) * worldSize * 0.8 on each axis.
randomPosition(worldSize, ux, uz) ==
    Vec(Div((2 * ux - RandomScale) * worldSize * 8 * PosScale, 10 * RandomScale),
        Div((2 * uz - RandomScale) * worldSize * 8 * PosScale, 10 * RandomScale))

\* randomVelocity: heading (cos, sin) of the drawn angle times speed.
randomVelocity(speed, heading) == Scaled(heading, speed)

randomGender(u) == IF 2 * u < RandomScale THEN "male" ELSE "female"

\* One set of Math.random() results consumed by a factory call.
FactoryDraw(ux, uz, heading, ug) == [ux |-> ux, uz |-> uz, heading |-> heading, ug |-> ug]

createRabbit(worldSize, id, d) ==
    [id |-> id,
     position |-> randomPosition(worldSize, d.ux, d.uz),
     velocity |-> randomVelocity(120, d.heading),
     energy |-> 80 * EnergyScale,
     age |-> 0,
     lastReproduced |-> 0,
     type |-> "rabbit",
     gender |-> randomGender(d.ug),
     isPregnant |-> FALSE,
     pregnancyTime |-> 0]

createFox(worldSize, id, d) ==
    [id |-> id,
     position |-> randomPosition(worldSize, d.ux, d.uz),
     velocity |-> randomVelocity(180, d.heading),
     energy |-> 100 * EnergyScale,
     age |-> 0,
     lastReproduced |-> 0,
     type |-> "fox",
     gender |-> randomGender(d.ug),
     isPregnant |-> FALSE,
     pregnancyTime |-> 0]

----------------------------------------------------------------------------
\* Object identity inside updateAgents.  An agent record carries, while a tick
\* is computed, the identity `obj` of the JavaScript object that holds it, so
\* that a write through a reference shared with the previous snapshot shows.

AgentFields == {"id", "position", "velocity", "energy", "age", "lastReproduced",
                "type", "gender", "isPregnant", "pregnancyTime"}

\* The objects of the snapshot get() returns.
Snapshot(agents) == [i \in 1..Len(agents) |->
    [f \in AgentFields \cup {"obj"} |->
        IF f = "obj" THEN <<"snapshot", agents[i].id>> ELSE agents[i][f]]]

\* { ...agent }: a new object with the same fields.
Spread(agent) == [agent EXCEPT !.obj = <<"new", agent.id>>]

\* What set() stores: the records without the bookkeeping field.
Stored(agents) == [i \in 1..Len(agents) |-> [f \in AgentFields |-> agents[i][f]]]

IsShared(o) == o[1] = "snapshot"

----------------------------------------------------------------------------
\* Nearest-neighbour search and boundary policy.

RECURSIVE ClosestLoopLast(_, _, _, _, _)
\* Seeded fault: distance <= closestDistance, an equally near later candidate
\* replaces the earlier one.
ClosestLoopLast(position, others, i, closest, closestDistance) ==
    IF i > Len(others) THEN closest
    ELSE LET distance == distanceSquared(position, others[i].position)
         IN  IF closestDistance < 0 \/ distance <= closestDistance
             THEN ClosestLoopLast(position, others, i + 1, i, distance)
             ELSE ClosestLoopLast(position, others, i + 1, closest, closestDistance)

RECURSIVE ClosestLoop(_, _, _, _, _)
\* The for-loop of findClosestRabbit / findClosestFox: closest is the index of
\* the current candidate (0: null), closestDistance < 0 stands for Infinity.
ClosestLoop(position, others, i, closest, closestDistance) ==
    IF i > Len(others) THEN closest
    ELSE LET distance == distanceSquared(position, others[i].position)
         IN  IF closestDistance < 0 \/ distance < closestDistance
             THEN ClosestLoop(position, others, i + 1, i, distance)
             ELSE ClosestLoop(position, others, i + 1, closest, closestDistance)

\* Seeded fault: the first rabbit of the list is taken for the closest.
findFirstRabbit(fox, rabbitList) == IF Len(rabbitList) = 0 THEN 0 ELSE 1

\* Index in `rabbits` of the closest rabbit, 0 for null.
findClosestRabbit(fox, rabbitList) ==
    IF Len(rabbitList) = 0 THEN 0 ELSE ClosestLoop(fox.position, rabbitList, 1, 0, -1)

\* Index in `foxes` of the closest fox, 0 for null.
findClosestFox(rabbit, foxList) ==
    IF Len(foxList) = 0 THEN 0 ELSE ClosestLoop(rabbit.position, foxList, 1, 0, -1)

\* Seeded fault: each axis is bounded on its own, to a square.
keepWithinBoundsSquare(position, worldSize) ==
    LET limit == (worldSize * PosScale * 95) \div 100
    IN  [position EXCEPT !.x = Max(-limit, Min(limit, position.x)),
                         !.z = Max(-limit, Min(limit, position.z))]

keepWithinBounds(position, worldSize) ==
    With(position.x, LAMBDA x :
    With(position.z, LAMBDA z :
    With(x * x + z * z, LAMBDA squared :
    With(worldSize * PosScale, LAMBDA radius :
    IF squared > radius * radius
    THEN With(Sqrt(squared), LAMBDA distanceFromCenter :
         [position EXCEPT
            !.x = Div(x * ((radius * 95) \div 100), distanceFromCenter),
            !.z = Div(z * ((radius * 95) \div 100), distanceFromCenter)])
    ELSE position))))

\* Seeded fault: the velocity is added once per call, whatever deltaTime is.
MovedPerFrame(position, velocity, deltaTime) ==
    [position EXCEPT !.x = position.x + Div(velocity.x * PosScale, VelScale),
                     !.z = position.z + Div(velocity.z * PosScale, VelScale)]

\* position + velocity * deltaTime
Moved(position, velocity, deltaTime) ==
    [position EXCEPT
        !.x = position.x + Div(velocity.x * deltaTime * PosScale, VelScale * TimeScale),
        !.z = position.z + Div(velocity.z * deltaTime * PosScale, VelScale * TimeScale)]

\* Math.random() < p, p given in percent.
Below(u, percent) == 100 * u < percent * RandomScale

----------------------------------------------------------------------------
\* Behaviour pass.

\* Seeded fault: the rabbit pass searches the foxes the fox pass has just moved.
ThreatListUpdated(stateFoxes, updatedFoxes) == updatedFoxes

\* The fox list the rabbit pass searches: state.foxes of the snapshot taken by get().
ThreatList(stateFoxes, updatedFoxes) == stateFoxes

updateRabbit(rabbit, stateFoxes, worldSize, deltaTime, rnd) ==
    With(IF rabbit.isPregnant
         THEN [Spread(rabbit) EXCEPT !.pregnancyTime = rabbit.pregnancyTime + deltaTime]
         ELSE Spread(rabbit), LAMBDA updatedRabbit :
    With(findClosestFox(updatedRabbit, stateFoxes), LAMBDA closestFox :
    With(IF closestFox # 0 /\
            distanceSquared(updatedRabbit.position, stateFoxes[closestFox].position)
                < (6 * PosScale) * (6 * PosScale)
         THEN LET awayVector ==
                    Vec(updatedRabbit.position.x - stateFoxes[closestFox].position.x,
                        updatedRabbit.position.z - stateFoxes[closestFox].position.z)
              IN  Scaled(normalizeVector(awayVector), 300)
         ELSE IF Below(rnd.turn, 3)
              THEN Turned(updatedRabbit.velocity, rnd.side)
              ELSE updatedRabbit.velocity, LAMBDA newVelocity :
    LET newPosition == Moved(updatedRabbit.position, newVelocity, deltaTime)
        regenerated == Min(100 * EnergyScale,
                           updatedRabbit.energy + Div(3 * deltaTime * EnergyScale, TimeScale))
        newEnergy == regenerated - Div(8 * deltaTime * EnergyScale, 10 * TimeScale)
                     - (IF updatedRabbit.isPregnant
                        THEN Div(5 * deltaTime * EnergyScale, 10 * TimeScale) ELSE 0)
    IN  [rabbit |-> [Spread(updatedRabbit) EXCEPT
                        !.position = keepWithinBounds(newPosition, worldSize),
                        !.velocity = newVelocity,
                        !.energy = newEnergy,
                        !.age = updatedRabbit.age + deltaTime],
         wrote |-> IF rabbit.isPregnant THEN {updatedRabbit.obj} ELSE {}])))

\* Seeded fault: the detection radius 8.0 is used where the catch radius belongs.
InCatchRadiusWide(squared) == squared < (8 * PosScale) * (8 * PosScale)

\* Catch radius 1.2, compared on the squares.
InCatchRadius(squared) == 100 * squared < 144 * PosScale * PosScale

\* Seeded fault: the fox pass leaves a fox as it is: it neither hunts nor
\* uses up energy.
updateFoxResting(fox, worldSize, deltaTime, rabbitList, rnd) ==
    [fox |-> Spread(fox), eatenRabbitId |-> 0, wrote |-> {}]

updateFox(fox, worldSize, deltaTime, rabbitList, rnd) ==
    With(IF fox.isPregnant
         THEN [Spread(fox) EXCEPT !.pregnancyTime = fox.pregnancyTime + deltaTime]
         ELSE Spread(fox), LAMBDA updatedFox :
    With(findClosestRabbit(updatedFox, rabbitList), LAMBDA closestRabbit :
    With(IF closestRabbit = 0 THEN -1
         ELSE distanceSquared(updatedFox.position, rabbitList[closestRabbit].position),
         LAMBDA squared :
    With(closestRabbit # 0 /\ squared < (8 * PosScale) * (8 * PosScale), LAMBDA hunting :
    With(IF hunting
         THEN LET towardVector ==
                    Vec(rabbitList[closestRabbit].position.x - updatedFox.position.x,
                        rabbitList[closestRabbit].position.z - updatedFox.position.z)
              IN  Scaled(normalizeVector(towardVector), 350)
         ELSE IF Below(rnd.turn, 4)
              THEN Scaled(Turned(Heading(updatedFox.velocity), rnd.side), 180)
              ELSE updatedFox.velocity, LAMBDA newVelocity :
    LET catch == hunting /\ InCatchRadius(squared)
        consumed == updatedFox.energy - Div(25 * deltaTime * EnergyScale, 10 * TimeScale)
                    - (IF updatedFox.isPregnant
                       THEN Div(8 * deltaTime * EnergyScale, 10 * TimeScale) ELSE 0)
        newPosition == Moved(updatedFox.position, newVelocity, deltaTime)
    IN  [fox |-> [Spread(updatedFox) EXCEPT
                        !.position = keepWithinBounds(newPosition, worldSize),
                        !.velocity = newVelocity,
                        !.energy = IF catch
                                   THEN Min(100 * EnergyScale,
                                            updatedFox.energy + 60 * EnergyScale)
                                   ELSE consumed,
                        !.age = updatedFox.age + deltaTime],
         eatenRabbitId |-> IF catch THEN rabbitList[closestRabbit].id ELSE 0,
         wrote |-> IF fox.isPregnant THEN {updatedFox.obj} ELSE {}])))))

----------------------------------------------------------------------------
\* Reproduction pass (checkGenderBasedReproduction).

pregnancyDuration(species) == IF species = "rabbit" THEN 8 * TimeScale ELSE 15 * TimeScale

reproductionParams(species) ==
    IF species = "rabbit"
    THEN [minEnergy |-> 60 * EnergyScale, minAge |-> 8 * TimeScale,
          cooldown |-> 12 * TimeScale, chance |-> 15]
    ELSE [minEnergy |-> 75 * EnergyScale, minAge |-> 15 * TimeScale,
          cooldown |-> 18 * TimeScale, chance |-> 12]

\* Seeded fault: the litter of a fox for either species.
litterSizeOfFox(species, u) == (2 * u) \div RandomScale + 1

\* Math.floor(Math.random() * 3) + 2 rabbits, Math.floor(Math.random() * 2) + 1 foxes.
litterSize(species, u) ==
    IF species = "rabbit" THEN (3 * u) \div RandomScale + 2 ELSE (2 * u) \div RandomScale + 1

\* (Math.random() - 0.5) * 2
Jitter(u) == Div((2 * u - RandomScale) * PosScale, RandomScale)

\* The k-th baby of a tick: a factory agent with position and energy overridden.
Baby(agent, worldSize, species, id, draw) ==
    LET d == FactoryDraw(draw.ux, draw.uz, draw.heading, draw.ug)
        made == IF species = "rabbit" THEN createRabbit(worldSize, id, d)
                ELSE createFox(worldSize, id, d)
    IN  [f \in AgentFields \cup {"obj"} |->
            CASE f = "obj" -> <<"new", id>>
              [] f = "position" -> Vec(agent.position.x + Jitter(draw.jx),
                                       agent.position.z + Jitter(draw.jz))
              [] f = "energy" -> 60 * EnergyScale
              [] OTHER -> made[f]]

\* The draws of the k-th factory call of a tick, taken in turn from rnd.babies.
BabyDraw(rnd, k) == rnd.babies[(k % Len(rnd.babies)) + 1]

\* Seeded fault: the energy is reset with the pregnancy fields after a birth.
DeliveredExhausted(agent) ==
    [agent EXCEPT !.isPregnant = FALSE,
                  !.pregnancyTime = 0,
                  !.lastReproduced = agent.age,
                  !.energy = 0]

\* Seeded fault: agent.isPregnant = false is left out after a birth.
DeliveredStillPregnant(agent) ==
    [agent EXCEPT !.pregnancyTime = 0,
                  !.lastReproduced = agent.age,
                  !.energy = agent.energy - 40 * EnergyScale]

\* Reset pregnancy status after a birth.
Delivered(agent) ==
    [agent EXCEPT !.isPregnant = FALSE,
                  !.pregnancyTime = 0,
                  !.lastReproduced = agent.age,
                  !.energy = agent.energy - 40 * EnergyScale]

RECURSIVE BirthLoop(_, _, _, _, _, _)
\* for (const agent of agents): st = [agents, newAgents, nextId, wrote]
BirthLoop(st, i, worldSize, species, rnd, born0) ==
    IF i > Len(st.agents) THEN st
    ELSE LET agent == st.agents[i]
             n == litterSize(species, rnd.litter)
             born == Len(st.newAgents)
             litter == [k \in 1..n |->
                          Baby(agent, worldSize, species, st.nextId + k - 1,
                               BabyDraw(rnd, born0 + born + k - 1))]
         IN  IF agent.isPregnant /\ agent.pregnancyTime >= pregnancyDuration(species)
             THEN With([agents |-> [st.agents EXCEPT ![i] = Delivered(agent)],
                        newAgents |-> st.newAgents \o litter,
                        nextId |-> st.nextId + n,
                        wrote |-> st.wrote \cup {agent.obj}], LAMBDA delivered :
                  BirthLoop(delivered, i + 1, worldSize, species, rnd, born0))
             ELSE BirthLoop(st, i + 1, worldSize, species, rnd, born0)

\* Seeded fault: the cooldown gate is left out.
ReadyNoCooldown(agent, params) ==
    /\ agent.energy > params.minEnergy
    /\ agent.age > params.minAge

\* The three gates an agent must pass to mate.
Ready(agent, params) ==
    /\ agent.energy > params.minEnergy
    /\ agent.age > params.minAge
    /\ (agent.age - agent.lastReproduced) > params.cooldown

\* distance < matingDistance (2.0), compared on the squares.
InMatingDistance(female, male) ==
    distanceSquared(female.position, male.position) < (2 * PosScale) * (2 * PosScale)

\* Indices of the agents the filter keeps, in order.
RECURSIVE IndicesOf(_, _, _)
IndicesOf(agents, gender, i) ==
    IF i > Len(agents) THEN <<>>
    ELSE (IF agents[i].gender = gender /\ ~agents[i].isPregnant THEN <<i>> ELSE <<>>)
         \o IndicesOf(agents, gender, i + 1)

RECURSIVE MateLoop(_, _, _, _, _, _)
\* for (const female of females): st = [agents, wrote, log]
MateLoop(st, females, males, k, params, rnd) ==
    IF k > Len(females) THEN st
    ELSE
    With(st.agents[females[k]], LAMBDA female :
    With({j \in 1..Len(males) :
            /\ Ready(st.agents[males[j]], params)
            /\ InMatingDistance(female, st.agents[males[j]])
            /\ Below(rnd.chance, params.chance)}, LAMBDA accepts :
    IF Ready(female, params) /\ accepts # {}
    THEN With(males[CHOOSE j \in accepts : \A h \in accepts : j <= h], LAMBDA mi :
         With(st.agents[mi], LAMBDA male :
         With(
            [agents |-> [st.agents EXCEPT
                ![females[k]] = [female EXCEPT !.isPregnant = TRUE,
                                               !.pregnancyTime = 0,
                                               !.energy = female.energy - 15 * EnergyScale],
                ![mi] = [male EXCEPT !.energy = male.energy - 10 * EnergyScale,
                                     !.lastReproduced = male.age]],
             wrote |-> st.wrote \cup {female.obj, male.obj},
             log |-> Append(st.log, [female |-> female, male |-> male])], LAMBDA mated :
         MateLoop(mated, females, males, k + 1, params, rnd))))
    ELSE MateLoop(st, females, males, k + 1, params, rnd)))

\* Result: the agents as mutated in place, the new agents, the identifiers used
\* and the objects written.  born0 is the number of factory calls made before.
checkGenderBasedReproduction(agents, worldSize, species, rnd, firstId, born0) ==
    With(BirthLoop([agents |-> agents, newAgents |-> <<>>,
                    nextId |-> firstId, wrote |-> {}],
                   1, worldSize, species, rnd, born0), LAMBDA births :
    With(IndicesOf(births.agents, "male", 1), LAMBDA males :
    With(IndicesOf(births.agents, "female", 1), LAMBDA females :
    With(MateLoop([agents |-> births.agents, wrote |-> births.wrote, log |-> <<>>],
                  females, males, 1, reproductionParams(species), rnd), LAMBDA mated :
    [agents |-> mated.agents, newAgents |-> births.newAgents,
     nextId |-> births.nextId, wrote |-> mated.wrote, log |-> mated.log]))))

----------------------------------------------------------------------------
\* updateAgents.

\* Seeded fault: the agents left without energy are not filtered out.
AliveAlways(agent) == TRUE

\* .filter(fox => fox.energy > 0), .filter(rabbit => rabbit.energy > 0)
Alive(agent) == agent.energy > 0

\* Seeded fault: the eaten rabbits are not filtered out.
NotEatenAll(rabbit, eatenRabbitIds) == TRUE

\* .filter(rabbit => !eatenRabbitIds.has(rabbit.id))
NotEaten(rabbit, eatenRabbitIds) == rabbit.id \notin eatenRabbitIds

\* Seeded fault: the speed factor is left out of the delta.
ScaledDeltaUnscaled(deltaTime, speed) == deltaTime

\* const newDelta = deltaTime * state.speedFactor
ScaledDelta(deltaTime, speed) == Div(deltaTime * speed, SpeedScale)

\* Seeded fault: the newborns are put in front of the survivors.
PublishedNewFirst(updated, newAgents) == newAgents \o updated

\* [...updatedRabbits, ...newRabbits]
Published(updated, newAgents) == updated \o newAgents

\* The whole of updateAgents(deltaTime) on the current state, given the results
\* rnd of the Math.random() calls it makes.
Updated(deltaTime, rnd) ==
    With(Snapshot(rabbits), LAMBDA stateRabbits :
    With(Snapshot(foxes), LAMBDA stateFoxes :
    With(ScaledDelta(deltaTime, speedFactor), LAMBDA newDelta :
    With([i \in 1..Len(stateFoxes) |->
            updateFox(stateFoxes[i], WORLD_SIZE, newDelta, stateRabbits, rnd)],
         LAMBDA foxResults :
    With({foxResults[i].eatenRabbitId : i \in 1..Len(stateFoxes)} \ {0},
         LAMBDA eatenRabbitIds :
    With(SelectSeq([i \in 1..Len(stateFoxes) |-> foxResults[i].fox], Alive),
         LAMBDA updatedFoxes :
    With(SelectSeq(stateRabbits, LAMBDA r : NotEaten(r, eatenRabbitIds)),
         LAMBDA remaining :
    With([i \in 1..Len(remaining) |->
            updateRabbit(remaining[i], ThreatList(stateFoxes, updatedFoxes),
                         WORLD_SIZE, newDelta, rnd)],
         LAMBDA rabbitResults :
    With(SelectSeq([i \in 1..Len(remaining) |-> rabbitResults[i].rabbit], Alive),
         LAMBDA updatedRabbits :
    With(checkGenderBasedReproduction(updatedRabbits, WORLD_SIZE, "rabbit", rnd, nextId, 0),
         LAMBDA bornRabbits :
    With(checkGenderBasedReproduction(updatedFoxes, WORLD_SIZE, "fox", rnd,
                                      bornRabbits.nextId, Len(bornRabbits.newAgents)),
         LAMBDA bornFoxes :
    LET wrote == UNION ({foxResults[i].wrote : i \in 1..Len(stateFoxes)}
                        \cup {rabbitResults[i].wrote : i \in 1..Len(remaining)}
                        \cup {bornRabbits.wrote, bornFoxes.wrote})
    IN  [simulationTime |-> simulationTime + newDelta,
         rabbits |-> Stored(Published(bornRabbits.agents, bornRabbits.newAgents)),
         foxes |-> Stored(Published(bornFoxes.agents, bornFoxes.newAgents)),
         nextId |-> bornFoxes.nextId,
         catches |-> [i \in 1..Len(stateFoxes) |-> foxResults[i].eatenRabbitId],
         sharedWrites |-> {o \in wrote : IsShared(o)},
         matings |-> bornRabbits.log \o bornFoxes.log])))))))))))

\* Inputs of the exploration: frame deltas and Math.random() results.
East == Vec(UnitScale, 0)
North == Vec(0, UnitScale)
West == Vec(-UnitScale, 0)
NorthEast == Vec(3 * (UnitScale \div 5), 4 * (UnitScale \div 5))

\* The Math.random() result that randomPosition maps to coordinate x (worldSize 20).
U(x) == (RandomScale + 10 * x) \div 2
Low == 0
High == RandomScale - 1

DeltaTimes == {1 * TimeScale, 19 * TimeScale}
FrameDelta == 1 * TimeScale

BabyDraws == << [ux |-> U(0), uz |-> U(0), heading |-> East, ug |-> Low,
                 jx |-> U(400), jz |-> U(-400)],
                [ux |-> U(0), uz |-> U(0), heading |-> North, ug |-> High,
                 jx |-> High, jz |-> High] >>

\* No random turn, every mating attempt succeeds, smallest litters.
Calm == [turn |-> High, side |-> 1, chance |-> Low, litter |-> Low, babies |-> BabyDraws]
\* Every wandering agent turns, no mating attempt succeeds, largest litters.
Wild == [turn |-> Low, side |-> -1, chance |-> High, litter |-> High, babies |-> BabyDraws]
Draws == {Calm, Wild}

\* Draws of the initial seeding and of reset: place (x, z), heading, gender draw.
Place(x, z, heading, ug, flip) ==
    FactoryDraw(U(x), U(z), heading, IF flip THEN High - ug ELSE ug)

RabbitSeed(flip) ==
    << Place(0, 0, East, Low, flip),
       Place(100, 100, North, High, flip),
       Place(1000, 0, East, High, flip),
       Place(1100, 0, East, Low, flip),
       Place(-1000, 0, North, Low, flip),
       Place(-1000, 100, North, High, flip),
       Place(-1000, -100, North, High, flip),
       Place(0, -1500, NorthEast, Low, flip) >>

FoxSeed(flip) ==
    << Place(100, 0, East, High, flip),
       Place(60, 0, North, Low, flip),
       Place(0, 1500, West, Low, flip),
       Place(1596, 1596, NorthEast, High, flip) >>

SpawnDraws == { Place(50, 0, East, High, FALSE) }

\* Array(INITIAL_RABBITS).fill(null).map(() => createRabbit(WORLD_SIZE))
SeededRabbits(firstId, flip) ==
    [i \in 1..INITIAL_RABBITS |-> createRabbit(WORLD_SIZE, firstId + i - 1, RabbitSeed(flip)[i])]

SeededFoxes(firstId, flip) ==
    [i \in 1..INITIAL_FOXES |-> createFox(WORLD_SIZE, firstId + i - 1, FoxSeed(flip)[i])]

----------------------------------------------------------------------------
\* State machine.

Init ==
    \E flip \in BOOLEAN :
        /\ rabbits = SeededRabbits(1, flip)
        /\ foxes = SeededFoxes(1 + INITIAL_RABBITS, flip)
        /\ isPaused = FALSE
        /\ speedFactor = 1 * SpeedScale
        /\ simulationTime = 0
        /\ nextId = 1 + INITIAL_RABBITS + INITIAL_FOXES
        /\ op = [name |-> "create", arg |-> 0]
        /\ catches = <<>>
        /\ sharedWrites = {}
        /\ matings = <<>>
        /\ prev = [rabbits |-> SeededRabbits(1, flip),
                   foxes |-> SeededFoxes(1 + INITIAL_RABBITS, flip),
                   isPaused |-> FALSE, speedFactor |-> 1 * SpeedScale,
                   simulationTime |-> 0, nextId |-> 1 + INITIAL_RABBITS + INITIAL_FOXES]
        /\ ticks = 0 /\ commands = 0 /\ controls = 0

\* The store as it is now, remembered as prev by the operation that changes it.
Now == [rabbits |-> rabbits, foxes |-> foxes, isPaused |-> isPaused,
        speedFactor |-> speedFactor, simulationTime |-> simulationTime, nextId |-> nextId]

\* An operation other than updateAgents: nothing is eaten, written or mated.
Quiet ==
    /\ catches' = <<>>
    /\ sharedWrites' = {}
    /\ matings' = <<>>
    /\ prev' = Now

\* set({ rabbits, foxes, ... }) of the values updateAgents computed.
Commit(next) ==
    \E state \in {next} :
        /\ simulationTime' = state.simulationTime
        /\ rabbits' = state.rabbits
        /\ foxes' = state.foxes
        /\ nextId' = state.nextId
        /\ catches' = state.catches
        /\ sharedWrites' = state.sharedWrites
        /\ matings' = state.matings

\* The state change of one call of updateAgents.
Advance(deltaTime, rnd) ==
    /\ ticks < MaxTicks
    /\ Commit(Updated(deltaTime, rnd))
    /\ prev' = Now
    /\ ticks' = ticks + 1
    /\ UNCHANGED <<isPaused, speedFactor, commands, controls>>

\* useSimulationStore.updateAgents(deltaTime), whoever calls it.
UpdateAgents(deltaTime, rnd) ==
    /\ Advance(deltaTime, rnd)
    /\ op' = [name |-> "updateAgents", arg |-> deltaTime]

\* Seeded fault: the frame callback calls updateAgents whatever isPaused is.
FrameRunsAlways == TRUE

\* The condition under which the frame callback calls updateAgents.
FrameRuns == ~isPaused

\* Agents.tsx: useFrame((state, delta) => { if (!isPaused) updateAgents(delta) })
Frame(delta, rnd) ==
    /\ op' = [name |-> "frame", arg |-> delta]
    /\ IF FrameRuns
       THEN Advance(delta, rnd)
       ELSE /\ Quiet
            /\ UNCHANGED <<rabbits, foxes, isPaused, speedFactor, simulationTime, nextId,
                           ticks, commands, controls>>

TogglePause ==
    /\ controls < MaxControls
    /\ isPaused' = ~isPaused
    /\ controls' = controls + 1
    /\ op' = [name |-> "togglePause", arg |-> 0]
    /\ Quiet
    /\ UNCHANGED <<rabbits, foxes, speedFactor, simulationTime, nextId, ticks, commands>>

\* What setSpeedFactor(speed) stores.
StoredSpeed(speed) == speed

SetSpeed(speed, name) ==
    /\ controls < MaxControls
    /\ speedFactor' = StoredSpeed(speed)
    /\ controls' = controls + 1
    /\ op' = [name |-> name, arg |-> speed]
    /\ Quiet
    /\ UNCHANGED <<rabbits, foxes, isPaused, simulationTime, nextId, ticks, commands>>

\* Arguments tried for a direct call of setSpeedFactor (5.0 and -1.0).
SpeedInputs == {5 * SpeedScale, -1 * SpeedScale}

SetSpeedFactor(speed) == SetSpeed(speed, "setSpeedFactor")

\* Controls.tsx, the minus button: disabled when speedFactor <= 0.1.
SlowerTarget == Max(1, speedFactor - 1)
SpeedDown ==
    /\ ~(speedFactor <= 1)
    /\ SetSpeed(SlowerTarget, "speedDown")

\* Seeded fault: the plus button built from a copy of the minus button's step.
FasterTargetSlower == Min(3 * SpeedScale, speedFactor - 1)

\* Controls.tsx, the plus button: disabled when speedFactor >= 3.0.
FasterTarget == Min(3 * SpeedScale, speedFactor + 1)
SpeedUp ==
    /\ ~(speedFactor >= 3 * SpeedScale)
    /\ SetSpeed(FasterTarget, "speedUp")

\* Seeded fault: the new rabbit is put in front of the others.
AddRabbitFirst(d) ==
    /\ commands < MaxCommands
    /\ rabbits' = <<createRabbit(WORLD_SIZE, nextId, d)>> \o rabbits
    /\ nextId' = nextId + 1
    /\ commands' = commands + 1
    /\ op' = [name |-> "addRabbit", arg |-> 0]
    /\ Quiet
    /\ UNCHANGED <<foxes, isPaused, speedFactor, simulationTime, ticks, controls>>

\* addRabbit: set((state) => ({ rabbits: [...state.rabbits, createRabbit(WORLD_SIZE)] }))
AddRabbit(d) ==
    /\ commands < MaxCommands
    /\ rabbits' = Append(rabbits, createRabbit(WORLD_SIZE, nextId, d))
    /\ nextId' = nextId + 1
    /\ commands' = commands + 1
    /\ op' = [name |-> "addRabbit", arg |-> 0]
    /\ Quiet
    /\ UNCHANGED <<foxes, isPaused, speedFactor, simulationTime, ticks, controls>>

\* addFox: set((state) => ({ foxes: [...state.foxes, createFox(WORLD_SIZE)] }))
AddFox(d) ==
    /\ commands < MaxCommands
    /\ foxes' = Append(foxes, createFox(WORLD_SIZE, nextId, d))
    /\ nextId' = nextId + 1
    /\ commands' = commands + 1
    /\ op' = [name |-> "addFox", arg |-> 0]
    /\ Quiet
    /\ UNCHANGED <<rabbits, isPaused, speedFactor, simulationTime, ticks, controls>>

\* Seeded fault: reset reseeds the populations and leaves the clock running.
ResetKeepsClock(flip) ==
    /\ commands < MaxCommands
    /\ rabbits' = SeededRabbits(nextId, flip)
    /\ foxes' = SeededFoxes(nextId + INITIAL_RABBITS, flip)
    /\ nextId' = nextId + INITIAL_RABBITS + INITIAL_FOXES
    /\ commands' = commands + 1
    /\ op' = [name |-> "reset", arg |-> 0]
    /\ Quiet
    /\ UNCHANGED <<simulationTime, isPaused, speedFactor, ticks, controls>>

\* reset: new populations of the initial sizes, simulationTime 0.
Reset(flip) ==
    /\ commands < MaxCommands
    /\ rabbits' = SeededRabbits(nextId, flip)
    /\ foxes' = SeededFoxes(nextId + INITIAL_RABBITS, flip)
    /\ simulationTime' = 0
    /\ nextId' = nextId + INITIAL_RABBITS + INITIAL_FOXES
    /\ commands' = commands + 1
    /\ op' = [name |-> "reset", arg |-> 0]
    /\ Quiet
    /\ UNCHANGED <<isPaused, speedFactor, ticks, controls>>

\* The store's operations on the populations, at the initial speed.
Next ==
    \/ \E deltaTime \in DeltaTimes, rnd \in Draws : UpdateAgents(deltaTime, rnd)
    \/ \E d \in SpawnDraws : AddRabbit(d)
    \/ \E d \in SpawnDraws : AddFox(d)
    \/ \E flip \in BOOLEAN : Reset(flip)

Spec == Init /\ [][Next]_vars

\* The controls and the frame callback, with the updates they drive.
NextControls ==
    \/ Frame(FrameDelta, Calm)
    \/ UpdateAgents(FrameDelta, Calm)
    \/ TogglePause
    \/ \E speed \in SpeedInputs : SetSpeedFactor(speed)
    \/ SpeedDown
    \/ SpeedUp
    \/ \E d \in SpawnDraws : AddRabbit(d)
    \/ \E d \in SpawnDraws : AddFox(d)

SpecControls == Init /\ [][NextControls]_vars

----------------------------------------------------------------------------
\* Properties.  prev is the store before the last operation, op names it.

\* The last operation ran updateAgents.
UpdateRan == op.name = "updateAgents" \/ (op.name = "frame" /\ ~prev.isPaused)

\* The time the last updateAgents added to the clock (newDelta).
Elapsed == simulationTime - prev.simulationTime

Ids(agents) == {agents[i].id : i \in 1..Len(agents)}

IndexOf(agents, id) == CHOOSE i \in 1..Len(agents) : agents[i].id = id

AllIds == Ids(rabbits) \cup Ids(foxes)

PrevIds == Ids(prev.rabbits) \cup Ids(prev.foxes)

Eaten == {catches[i] : i \in 1..Len(catches)} \ {0}

\* C1: every agent in the published rabbits and foxes has energy > 0, whatever
\* tick, spawn and reset operations came before.
EnergyDeath ==
    /\ \A i \in 1..Len(rabbits) : rabbits[i].energy > 0
    /\ \A i \in 1..Len(foxes) : foxes[i].energy > 0

\* C2: a rabbit whose id a fox reported as eaten in a tick is not in the
\* rabbits that tick publishes.
EatenRemoved ==
    UpdateRan => \A i \in 1..Len(catches) :
                    catches[i] # 0 => /\ catches[i] \in Ids(prev.rabbits)
                                      /\ catches[i] \notin Ids(rabbits)

\* A tick in which a rabbit with energy left was eaten.
EatenRemovedWitness ==
    /\ UpdateRan
    /\ \E i \in 1..Len(prev.rabbits) :
          /\ prev.rabbits[i].id \in Eaten
          /\ prev.rabbits[i].energy > 0

\* C3: in a tick each fox reports at most one eaten id, that of the rabbit
\* nearest to it at the start of the tick (the first of equally near ones) and
\* only if nearer than 1.2; so no more rabbits are eaten than there are foxes.
OneCatchPerFox ==
    UpdateRan =>
        /\ Len(catches) = Len(prev.foxes)
        /\ \A i \in 1..Len(catches) :
              catches[i] # 0 =>
                \E t \in 1..Len(prev.rabbits) :
                    LET d(j) == distanceSquared(prev.foxes[i].position,
                                                prev.rabbits[j].position)
                    IN  /\ prev.rabbits[t].id = catches[i]
                        /\ 100 * d(t) < 144 * PosScale * PosScale
                        /\ \A j \in 1..Len(prev.rabbits) :
                              /\ d(j) >= d(t)
                              /\ j < t => d(j) > d(t)
        /\ Cardinality(Ids(prev.rabbits) \cap Eaten) <= Len(prev.foxes)

\* A tick in which a fox had two rabbits inside the catch radius and ate one.
OneCatchPerFoxWitness ==
    /\ UpdateRan
    /\ \E i \in 1..Len(catches) :
          /\ catches[i] # 0
          /\ Cardinality({j \in 1..Len(prev.rabbits) :
                100 * distanceSquared(prev.foxes[i].position, prev.rabbits[j].position)
                    < 144 * PosScale * PosScale}) >= 2

\* The gates of a species, as simulationStore.ts states them.
GateEnergy(type) == IF type = "rabbit" THEN 60 * EnergyScale ELSE 75 * EnergyScale

GateAge(type) == IF type = "rabbit" THEN 8 * TimeScale ELSE 15 * TimeScale

GateCooldown(type) == IF type = "rabbit" THEN 12 * TimeScale ELSE 18 * TimeScale

PassesGates(agent) ==
    /\ ~agent.isPregnant
    /\ agent.energy > GateEnergy(agent.type)
    /\ agent.age > GateAge(agent.type)
    /\ agent.age - agent.lastReproduced > GateCooldown(agent.type)

\* The published collection of a species.
Population(type) == IF type = "rabbit" THEN rabbits ELSE foxes

PrevPopulation(type) == IF type = "rabbit" THEN prev.rabbits ELSE prev.foxes

\* The females that were not pregnant before the tick and are pregnant after it.
NewlyPregnant(type) ==
    {i \in 1..Len(Population(type)) :
        LET agent == Population(type)[i]
        IN  /\ agent.isPregnant
            /\ agent.id \in Ids(PrevPopulation(type)) =>
                  ~PrevPopulation(type)[IndexOf(PrevPopulation(type), agent.id)].isPregnant}

\* C4: a female that becomes pregnant in a tick mated in that tick with a male
\* of her species that is among the tick's survivors and nearer than 2.0, and
\* when they mated both passed every gate: not pregnant, energy, age and
\* cooldown above the species' minimum.
ReproductionGating ==
    UpdateRan =>
        /\ \A k \in 1..Len(matings) :
              LET female == matings[k].female
                  male == matings[k].male
              IN  /\ female.gender = "female" /\ male.gender = "male"
                  /\ female.type = male.type
                  /\ PassesGates(female) /\ PassesGates(male)
                  /\ distanceSquared(female.position, male.position)
                        < (2 * PosScale) * (2 * PosScale)
                  /\ male.id \in Ids(Population(male.type))
                  /\ female.id \in Ids(Population(female.type))
                  /\ Population(male.type)[IndexOf(Population(male.type), male.id)].position
                        = male.position
                  /\ Population(female.type)[IndexOf(Population(female.type), female.id)].position
                        = female.position
        /\ \A type \in {"rabbit", "fox"} : \A i \in NewlyPregnant(type) :
              \E k \in 1..Len(matings) : matings[k].female.id = Population(type)[i].id

\* A tick in which one female mated and another, as near to the same male,
\* stayed as she was.
ReproductionGatingWitness ==
    /\ UpdateRan
    /\ \E k \in 1..Len(matings) :
          \E i \in 1..Len(Population(matings[k].male.type)) :
              LET other == Population(matings[k].male.type)[i]
              IN  /\ other.gender = "female"
                  /\ ~other.isPregnant
                  /\ distanceSquared(other.position, matings[k].male.position)
                        < (2 * PosScale) * (2 * PosScale)

\* C5 as stated: updateAgents called while isPaused is true leaves
\* simulationTime and both collections as they were.
PausedUpdateNoOp ==
    (op.name = "updateAgents" /\ prev.isPaused) =>
        /\ simulationTime = prev.simulationTime
        /\ rabbits = prev.rabbits
        /\ foxes = prev.foxes

\* C5 as amended: a frame that arrives while isPaused is true leaves
\* simulationTime and both collections as they were; the guard is in the frame
\* callback, which then does not call updateAgents.
PausedFrameNoOp ==
    (op.name = "frame" /\ prev.isPaused) =>
        /\ simulationTime = prev.simulationTime
        /\ rabbits = prev.rabbits
        /\ foxes = prev.foxes
        /\ nextId = prev.nextId

\* A frame arrived while paused, after the simulation had run.
PausedFrameNoOpWitness ==
    /\ op.name = "frame"
    /\ prev.isPaused
    /\ simulationTime > 0

FactoryFresh(agent, type, energy) ==
    /\ agent.type = type
    /\ agent.energy = energy * EnergyScale
    /\ agent.age = 0
    /\ agent.lastReproduced = 0
    /\ ~agent.isPregnant
    /\ agent.pregnancyTime = 0
    /\ agent.id \notin PrevIds
    /\ agent.id >= prev.nextId

\* C7: reset() yields exactly 8 rabbits and 4 foxes, all factory-fresh, and
\* simulationTime 0; no agent of the population before the reset remains.
ResetReseeds ==
    op.name = "reset" =>
        /\ Len(rabbits) = 8
        /\ Len(foxes) = 4
        /\ \A i \in 1..Len(rabbits) : FactoryFresh(rabbits[i], "rabbit", 80)
        /\ \A i \in 1..Len(foxes) : FactoryFresh(foxes[i], "fox", 100)
        /\ simulationTime = 0
        /\ AllIds \cap PrevIds = {}

\* A reset of a simulation that had run and whose populations had changed.
ResetReseedsWitness ==
    /\ op.name = "reset"
    /\ prev.simulationTime > 0
    /\ Len(prev.rabbits) # 8
    /\ \E i \in 1..Len(prev.foxes) : prev.foxes[i].isPregnant

\* C8: addRabbit / addFox appends one factory-fresh agent to its species'
\* collection and leaves the agents already there, the other collection,
\* simulationTime, isPaused and speedFactor as they were, paused or not; the
\* next updateAgents processes every agent of the collections it finds.
SpawnFrame ==
    /\ op.name = "addRabbit" =>
          /\ Len(rabbits) = Len(prev.rabbits) + 1
          /\ SubSeq(rabbits, 1, Len(prev.rabbits)) = prev.rabbits
          /\ FactoryFresh(rabbits[Len(rabbits)], "rabbit", 80)
          /\ foxes = prev.foxes
    /\ op.name = "addFox" =>
          /\ Len(foxes) = Len(prev.foxes) + 1
          /\ SubSeq(foxes, 1, Len(prev.foxes)) = prev.foxes
          /\ FactoryFresh(foxes[Len(foxes)], "fox", 100)
          /\ rabbits = prev.rabbits
    /\ op.name \in {"addRabbit", "addFox"} =>
          /\ simulationTime = prev.simulationTime
          /\ isPaused = prev.isPaused
          /\ speedFactor = prev.speedFactor
    /\ (UpdateRan /\ Elapsed >= 0) =>
          \A type \in {"rabbit", "fox"} : \A i \in 1..Len(PrevPopulation(type)) :
              LET agent == PrevPopulation(type)[i]
              IN  (agent.id \notin Eaten /\ agent.age = 0
                        /\ 10 * agent.energy > 33 * Elapsed * (EnergyScale \div TimeScale))
                  => /\ agent.id \in Ids(Population(type))
                     /\ Population(type)[IndexOf(Population(type), agent.id)].age = Elapsed

\* A rabbit was added while the simulation, which had run, was paused.
SpawnFrameWitness ==
    /\ op.name = "addRabbit"
    /\ isPaused
    /\ simulationTime > 0

\* The index in others of the agent nearest to position, the first of equally
\* near ones; others is not empty.
Nearest(position, others) ==
    CHOOSE t \in 1..Len(others) :
        \A j \in 1..Len(others) :
            /\ distanceSquared(position, others[j].position)
                  >= distanceSquared(position, others[t].position)
            /\ j < t => distanceSquared(position, others[j].position)
                            > distanceSquared(position, others[t].position)

Difference(a, b) == Vec(a.x - b.x, a.z - b.z)

\* The rabbits that lived through the last tick, by their index before it.
SurvivingRabbits == {i \in 1..Len(prev.rabbits) : prev.rabbits[i].id \in Ids(rabbits)}

SurvivingFoxes == {i \in 1..Len(prev.foxes) : prev.foxes[i].id \in Ids(foxes)}

\* C9: in a tick a rabbit flees from the position its nearest fox had at the
\* start of the tick, and wanders if no fox was within 6.0 then; a fox hunts
\* towards the position its nearest rabbit had at the start of the tick; and
\* no agent record of the previous snapshot is written.
SnapshotIsolation ==
    UpdateRan =>
        /\ sharedWrites = {}
        /\ \A i \in SurvivingRabbits :
              LET before == prev.rabbits[i]
                  after == rabbits[IndexOf(rabbits, before.id)]
                  fox == prev.foxes[Nearest(before.position, prev.foxes)]
              IN  IF Len(prev.foxes) > 0 /\
                     distanceSquared(before.position, fox.position)
                        < (6 * PosScale) * (6 * PosScale)
                  THEN after.velocity =
                          Scaled(normalizeVector(Difference(before.position, fox.position)), 300)
                  ELSE after.velocity \in {before.velocity, Turned(before.velocity, 1),
                                           Turned(before.velocity, -1)}
        /\ \A i \in SurvivingFoxes :
              LET before == prev.foxes[i]
                  after == foxes[IndexOf(foxes, before.id)]
                  rabbit == prev.rabbits[Nearest(before.position, prev.rabbits)]
              IN  (Len(prev.rabbits) > 0 /\
                   distanceSquared(before.position, rabbit.position)
                        < (8 * PosScale) * (8 * PosScale))
                  => after.velocity =
                        Scaled(normalizeVector(Difference(rabbit.position, before.position)), 350)

\* A tick in which a rabbit fled from a fox that the fox pass had already moved
\* out of the rabbit's detection radius.
SnapshotIsolationWitness ==
    /\ UpdateRan
    /\ \E i \in SurvivingRabbits : \E j \in SurvivingFoxes :
          LET before == prev.rabbits[i]
              after == rabbits[IndexOf(rabbits, before.id)]
              fox == prev.foxes[j]
              moved == foxes[IndexOf(foxes, fox.id)]
          IN  /\ j = Nearest(before.position, prev.foxes)
              /\ distanceSquared(before.position, fox.position) < (6 * PosScale) * (6 * PosScale)
              /\ distanceSquared(before.position, moved.position) > (6 * PosScale) * (6 * PosScale)
              /\ after.velocity # before.velocity

\* The agents of after that were in before come first and in their old order.
KeepsOrder(before, after) ==
    \A i \in 1..Len(after) : \A j \in 1..Len(after) :
        (i < j /\ after[j].id \in Ids(before)) =>
            /\ after[i].id \in Ids(before)
            /\ IndexOf(before, after[i].id) < IndexOf(before, after[j].id)

KeepsKind(before, after) ==
    \A i \in 1..Len(after) :
        after[i].id \in Ids(before) =>
            /\ after[i].type = before[IndexOf(before, after[i].id)].type
            /\ after[i].gender = before[IndexOf(before, after[i].id)].gender

\* C10: all ids of both collections are pairwise distinct; an agent that lives
\* through a tick keeps its id, species, gender and its place among the
\* survivors, the newborns coming after them; and the id of a newborn, spawned
\* or reseeded agent was never handed out before.
Identity ==
    /\ Cardinality(AllIds) = Len(rabbits) + Len(foxes)
    /\ \A id \in AllIds : id >= 1 /\ id < nextId
    /\ nextId >= prev.nextId
    /\ \A id \in AllIds \ PrevIds : id >= prev.nextId
    /\ \A i \in 1..Len(rabbits) : rabbits[i].type = "rabbit"
    /\ \A i \in 1..Len(foxes) : foxes[i].type = "fox"
    /\ UpdateRan =>
          /\ KeepsOrder(prev.rabbits, rabbits) /\ KeepsKind(prev.rabbits, rabbits)
          /\ KeepsOrder(prev.foxes, foxes) /\ KeepsKind(prev.foxes, foxes)

\* A tick with newborn rabbits, in a simulation that had lost a rabbit before.
IdentityWitness ==
    /\ UpdateRan
    /\ Ids(rabbits) \ PrevIds # {}
    /\ Ids(rabbits) \cap PrevIds # {}
    /\ \E id \in 1..INITIAL_RABBITS : id \notin AllIds

\* The gestation of a species, as simulationStore.ts states it.
GateGestation(type) == IF type = "rabbit" THEN 8 * TimeScale ELSE 15 * TimeScale

\* The agents of a species that lived through the last tick, by their index
\* before it.
Surviving(type) ==
    {i \in 1..Len(PrevPopulation(type)) :
        PrevPopulation(type)[i].id \in Ids(Population(type))}

\* The agent after the tick that was PrevPopulation(type)[i] before it.
After(type, i) ==
    Population(type)[IndexOf(Population(type), PrevPopulation(type)[i].id)]

----------------------------------------------------------------------------
\* The helper functions of the store, applied to inputs of their own.  The
\* store itself stays as Init made it; op holds the call and its result.

\* Coordinates tried: the centre, the rim (1200, 1600 and 2000 lie on it),
\* just inside, just outside and far outside.
Coordinates == {-2500, -2001, -2000, -1600, -1200, -1, 0, 1, 1199, 1200, 1201,
                1600, 2000, 2001, 2500}

Heights == {0, 50}

\* keepWithinBounds(position, WORLD_SIZE)
ClampPosition(position) ==
    /\ op.name = "create"
    /\ op' = [name |-> "keepWithinBounds", arg |-> position,
              result |-> keepWithinBounds(position, WORLD_SIZE)]
    /\ UNCHANGED <<rabbits, foxes, isPaused, speedFactor, simulationTime, nextId,
                   catches, sharedWrites, matings, prev, ticks, commands, controls>>

\* n calls of updateAgents(deltaTime) as one agent on its own lives them: no
\* other agent is near and no Math.random() result makes it turn.
RECURSIVE Ticked(_, _, _, _)
Ticked(agent, clock, deltaTime, n) ==
    IF n = 0 THEN [agent |-> agent, clock |-> clock]
    ELSE Ticked(IF agent.type = "rabbit"
                THEN updateRabbit(agent, <<>>, WORLD_SIZE,
                                  ScaledDelta(deltaTime, speedFactor), Calm).rabbit
                ELSE updateFox(agent, WORLD_SIZE,
                               ScaledDelta(deltaTime, speedFactor), <<>>, Calm).fox,
                clock + ScaledDelta(deltaTime, speedFactor), deltaTime, n - 1)

\* The longest run of ticks tried.
MaxSteps == 4

\* The shortest frame tried, half a second.
FrameUnit == TimeScale \div 2

\* An agent of the species, 10 units west and south of the centre.
Lone(species, heading) ==
    LET d == FactoryDraw(U(-1000), U(-1000), heading, Low)
    IN  Snapshot(<< IF species = "rabbit" THEN createRabbit(WORLD_SIZE, 1, d)
                    ELSE createFox(WORLD_SIZE, 1, d) >>)[1]

\* The same time a * b * FrameUnit lived as a ticks and as b ticks.
Integrate(species, heading, a, b) ==
    /\ op.name = "create"
    /\ op' = [name |-> "integrate",
              arg |-> [species |-> species, heading |-> heading, a |-> a, b |-> b],
              result |-> << Ticked(Lone(species, heading), 0, b * FrameUnit, a),
                            Ticked(Lone(species, heading), 0, a * FrameUnit, b) >>]
    /\ UNCHANGED <<rabbits, foxes, isPaused, speedFactor, simulationTime, nextId,
                   catches, sharedWrites, matings, prev, ticks, commands, controls>>

\* The most candidates a search is given.
MaxCandidates == 3

\* Places of the searcher and of the candidates: some equally far from a
\* searcher, some at its own place.
Places == {Vec(0, 0), Vec(100, 0), Vec(-100, 0), Vec(0, 100), Vec(300, 400)}

\* The lists of at most n candidates.
RECURSIVE Candidates(_)
Candidates(n) ==
    IF n = 0 THEN {<<>>}
    ELSE Candidates(n - 1) \cup
         {Append(list, [id |-> Len(list) + 1, position |-> place] ) :
              list \in {l \in Candidates(n - 1) : Len(l) = n - 1}, place \in Places}

\* findClosestRabbit(fox, rabbits) or findClosestFox(rabbit, foxes)
FindClosest(species, position, others) ==
    /\ op.name = "create"
    /\ op' = [name |-> "findClosest",
              arg |-> [species |-> species, position |-> position, others |-> others],
              result |-> IF species = "fox"
                         THEN findClosestRabbit([position |-> position], others)
                         ELSE findClosestFox([position |-> position], others)]
    /\ UNCHANGED <<rabbits, foxes, isPaused, speedFactor, simulationTime, nextId,
                   catches, sharedWrites, matings, prev, ticks, commands, controls>>

NextHelpers ==
    \/ \E x \in Coordinates, y \in Heights, z \in Coordinates :
          ClampPosition([x |-> x, y |-> y, z |-> z])
    \/ \E species \in {"rabbit", "fox"}, heading \in {East, North, NorthEast},
           a \in 1..MaxSteps, b \in 1..MaxSteps :
          Integrate(species, heading, a, b)
    \/ \E species \in {"rabbit", "fox"}, position \in {Vec(0, 0), Vec(100, 0)},
           others \in Candidates(MaxCandidates) :
          FindClosest(species, position, others)

SpecHelpers == Init /\ [][NextHelpers]_vars

\* The square of the planar distance of a position from the centre.
PlanarSquared(position) == position.x * position.x + position.z * position.z

\* The square of the arena radius.
RadiusSquared == (WORLD_SIZE * PosScale) * (WORLD_SIZE * PosScale)

\* q lies on the ray from the centre through p, to the rounding of one
\* position unit per axis.
SameRay(p, q) ==
    /\ Abs(q.x * p.z - q.z * p.x) <= Abs(p.x) + Abs(p.z)
    /\ q.x * p.x + q.z * p.z > 0

\* C12: keepWithinBounds returns a position farther than the radius from the
\* centre at 0.95 of the radius on the same ray, y unchanged, and any other
\* position as it is; the result is a position and nothing else.
BoundaryClamp ==
    op.name = "keepWithinBounds" =>
        LET p == op.arg
            q == op.result
            rim == (WORLD_SIZE * PosScale * 95) \div 100
        IN  /\ DOMAIN q = {"x", "y", "z"}
            /\ q.y = p.y
            /\ IF PlanarSquared(p) > RadiusSquared
               THEN /\ SameRay(p, q)
                    /\ PlanarSquared(q) >= (rim - 2) * (rim - 2)
                    /\ PlanarSquared(q) <= (rim + 2) * (rim + 2)
               ELSE q = p

\* A position outside the arena, off the axes, was brought back.
BoundaryClampWitness ==
    /\ op.name = "keepWithinBounds"
    /\ PlanarSquared(op.arg) > RadiusSquared
    /\ op.arg.x # 0 /\ op.arg.z # 0 /\ op.arg.y # 0
    /\ op.result # op.arg

\* C13: an agent that keeps its velocity (no turn, nothing to flee from or to
\* hunt, no boundary reached) ends at the same position, with the same age,
\* and the clock at the same time, whether a time is lived as a equal ticks
\* or as b equal ticks.
FrameRateIndependence ==
    op.name = "integrate" =>
        LET first == op.result[1]
            second == op.result[2]
        IN  /\ first.agent.position = second.agent.position
            /\ first.agent.age = second.agent.age
            /\ first.clock = second.clock
            /\ first.agent.velocity = second.agent.velocity
            /\ first.agent.age = op.arg.a * op.arg.b * FrameUnit

\* A time was lived as a long run of short ticks and as one tick, and the
\* agent moved on both axes, inside the arena.
FrameRateIndependenceWitness ==
    /\ op.name = "integrate"
    /\ op.arg.a = 1 /\ op.arg.b = MaxSteps
    /\ op.result[1].agent.position.x > -1000
    /\ op.result[1].agent.position.z > -1000
    /\ PlanarSquared(op.result[1].agent.position) < RadiusSquared

\* A female of the published population that no gate holds back, within
\* mating distance of the male of the k-th mating of the tick, who after that
\* mating still has the energy and the age to mate.
FurtherFemale(k, i) ==
    LET male == matings[k].male
        other == Population(male.type)[i]
    IN  /\ other.gender = "female"
        /\ other.id # matings[k].female.id
        /\ other.energy > GateEnergy(other.type)
        /\ other.age > GateAge(other.type)
        /\ other.age - other.lastReproduced > GateCooldown(other.type)
        /\ distanceSquared(other.position, male.position) < (2 * PosScale) * (2 * PosScale)
        /\ male.energy - 10 * EnergyScale > GateEnergy(male.type)
        /\ male.age > GateAge(male.type)

\* C14 as stated: a male that has mated in a tick mates in the same tick with
\* a further eligible female within range, when the draws succeed as they did
\* for his first mating; so no such female is left not pregnant.
MaleMultiMating ==
    UpdateRan =>
        \A k \in 1..Len(matings) :
            \A i \in 1..Len(Population(matings[k].male.type)) :
                FurtherFemale(k, i) => Population(matings[k].male.type)[i].isPregnant

\* C14 as amended: a male mates at most once in a tick, because his mating
\* sets lastReproduced to his age and the cooldown gate, checked again for
\* the next female, then holds him back; a female mates at most once in a
\* tick.
OneMatingPerTick ==
    UpdateRan =>
        /\ \A k \in 1..Len(matings) : \A h \in 1..Len(matings) :
              k # h => /\ matings[k].male.id # matings[h].male.id
                       /\ matings[k].female.id # matings[h].female.id
        /\ \A k \in 1..Len(matings) :
              LET male == matings[k].male
                  after == Population(male.type)[IndexOf(Population(male.type), male.id)]
              IN  /\ after.lastReproduced = after.age
                  /\ after.energy = male.energy - 10 * EnergyScale
                  /\ ~(after.age - after.lastReproduced > GateCooldown(male.type))

\* A tick in which a male mated and a further female, eligible and within his
\* range, was left as she was, the draws succeeding.
OneMatingPerTickWitness ==
    /\ UpdateRan
    /\ \E k \in 1..Len(matings) :
          \E i \in 1..Len(Population(matings[k].male.type)) :
              /\ FurtherFemale(k, i)
              /\ ~Population(matings[k].male.type)[i].isPregnant

\* The agents the last operation made with the factory: all of them after the
\* store is created, the new ones after a spawn or a reset.
FactoryMade(type) ==
    {i \in 1..Len(Population(type)) :
        /\ op.name \in {"create", "reset", "addRabbit", "addFox"}
        /\ op.name = "create" \/ Population(type)[i].id \notin PrevIds}

\* The base speed of a species, in 1/VelScale.
BaseSpeed(type) == IF type = "rabbit" THEN 120 ELSE 180

\* C15: an agent made by the factory for the initial seeding, a spawn or a
\* reset is at most 0.8 of the arena radius from the centre, at y = 0, and
\* moves at the base speed of its species.
FactoryPlacement ==
    \A type \in {"rabbit", "fox"} : \A i \in FactoryMade(type) :
        LET agent == Population(type)[i]
        IN  /\ 100 * PlanarSquared(agent.position) <= 64 * RadiusSquared
            /\ agent.position.y = 0
            /\ PlanarSquared(agent.velocity) = BaseSpeed(type) * BaseSpeed(type)

\* v has the length speed, to the rounding of the fixed point.
HasSpeed(v, speed) ==
    /\ PlanarSquared(v) >= (speed - 3) * (speed - 3)
    /\ PlanarSquared(v) <= (speed + 1) * (speed + 1)

\* v points along t, to the rounding of the fixed point.
PointsAlong(v, t) ==
    /\ Abs(v.x * t.z - v.z * t.x) <= 2 * (Abs(t.x) + Abs(t.z))
    /\ v.x * t.x + v.z * t.z > 0

ArenaContainment ==
    \A type \in {"rabbit", "fox"} : \A i \in 1..Len(Population(type)) :
        PlanarSquared(Population(type)[i].position) <= RadiusSquared

\* No agent has more than 100 energy.
EnergyWithinBound(rabbitList, foxList) ==
    /\ \A i \in 1..Len(rabbitList) : rabbitList[i].energy <= 100 * EnergyScale
    /\ \A i \in 1..Len(foxList) : foxList[i].energy <= 100 * EnergyScale

ReproducedInPast(rabbitList, foxList) ==
    /\ \A i \in 1..Len(rabbitList) : rabbitList[i].lastReproduced <= rabbitList[i].age
    /\ \A i \in 1..Len(foxList) : foxList[i].lastReproduced <= foxList[i].age

\* A tick moves the clock, and the age of every agent that lives through it,
\* by deltaTime times the speed factor in force when it is called.
AdvancesByScaledDelta ==
    UpdateRan =>
        /\ Elapsed * SpeedScale = op.arg * prev.speedFactor
        /\ \A type \in {"rabbit", "fox"} : \A i \in Surviving(type) :
              After(type, i).age = PrevPopulation(type)[i].age + Elapsed

\* No agent that is still there is younger than before the operation.
AgeNotDecreased ==
    \A type \in {"rabbit", "fox"} : \A i \in Surviving(type) :
        After(type, i).age >= PrevPopulation(type)[i].age

Delivering(type) ==
    {i \in Surviving(type) :
        /\ PrevPopulation(type)[i].isPregnant
        /\ PrevPopulation(type)[i].pregnancyTime + Elapsed >= GateGestation(type)}

\* The agents of the published population that were not there before.
Newborns(type) ==
    {j \in 1..Len(Population(type)) : Population(type)[j].id \notin PrevIds}

\* The energy with which PrevPopulation(type)[i], pregnant, leaves the
\* behaviour pass of the last tick.
BehaviourEnergy(type, i) ==
    LET energy == PrevPopulation(type)[i].energy
        perSecond == EnergyScale \div TimeScale
    IN  IF type = "rabbit"
        THEN (IF energy + 3 * Elapsed * perSecond < 100 * EnergyScale
              THEN energy + 3 * Elapsed * perSecond ELSE 100 * EnergyScale)
             - (8 * Elapsed * perSecond) \div 10 - (5 * Elapsed * perSecond) \div 10
        ELSE IF catches[i] # 0
             THEN (IF energy + 60 * EnergyScale < 100 * EnergyScale
                   THEN energy + 60 * EnergyScale ELSE 100 * EnergyScale)
             ELSE energy - (25 * Elapsed * perSecond) \div 10
                         - (8 * Elapsed * perSecond) \div 10

SmallestLitter(type) == IF type = "rabbit" THEN 2 ELSE 1

LargestLitter(type) == IF type = "rabbit" THEN 4 ELSE 2

\* C20: in the tick in which a pregnant agent that lives through the behaviour
\* pass has reached the gestation of its species, 2 to 4 rabbits or 1 to 2
\* foxes are born to it: of its species, with energy 60, age 0, lastReproduced
\* 0, not pregnant, within 1 unit per axis of its position; the parent is no
\* longer pregnant, has pregnancyTime 0, lastReproduced equal to its age and
\* 40 less energy; and no agent is born otherwise.
BirthStep ==
    UpdateRan =>
        \A type \in {"rabbit", "fox"} :
            /\ Cardinality(Newborns(type))
                  >= SmallestLitter(type) * Cardinality(Delivering(type))
            /\ Cardinality(Newborns(type))
                  <= LargestLitter(type) * Cardinality(Delivering(type))
            /\ \A j \in Newborns(type) :
                  LET baby == Population(type)[j]
                  IN  /\ baby.type = type
                      /\ baby.energy = 60 * EnergyScale
                      /\ baby.age = 0
                      /\ baby.lastReproduced = 0
                      /\ ~baby.isPregnant
                      /\ baby.pregnancyTime = 0
                      /\ j > Len(Population(type)) - Cardinality(Newborns(type))
                      /\ \E i \in Delivering(type) :
                            /\ Abs(baby.position.x - After(type, i).position.x) <= PosScale
                            /\ Abs(baby.position.z - After(type, i).position.z) <= PosScale
            /\ \A i \in Delivering(type) :
                  /\ ~After(type, i).isPregnant
                  /\ After(type, i).pregnancyTime = 0
                  /\ After(type, i).lastReproduced = After(type, i).age
                  /\ After(type, i).energy = BehaviourEnergy(type, i) - 40 * EnergyScale

\* A tick in which a rabbit and a fox gave birth.
BirthStepWitness ==
    /\ UpdateRan
    /\ Delivering("rabbit") # {}
    /\ Delivering("fox") # {}
    /\ Newborns("rabbit") # {}
    /\ Newborns("fox") # {}

----------------------------------------------------------------------------
\* Long frames.  useFrame hands updateAgents the whole time since the frame
\* before it, which after a stay of the page in the background is long.

\* The frame deltas tried: 19 s and 125 s.
LongDeltas == {19 * TimeScale, 125 * TimeScale}

\* The longest run of long frames followed.
MaxLive == 4

\* useSimulationStore.updateAgents(deltaTime), called by a frame.
Run(deltaTime, rnd) ==
    /\ ticks < MaxLive
    /\ Commit(Updated(deltaTime, rnd))
    /\ prev' = Now
    /\ ticks' = ticks + 1
    /\ op' = [name |-> "updateAgents", arg |-> deltaTime]
    /\ UNCHANGED <<isPaused, speedFactor, commands, controls>>

NextLive == \E deltaTime \in LongDeltas, rnd \in Draws : Run(deltaTime, rnd)

\* The frames keep coming while the simulation is not paused.
SpecLive == Init /\ [][NextLive]_vars /\ WF_vars(NextLive)

\* The agents that were pregnant before the last tick, whose gestation that
\* tick completed, and that the tick removed: eaten or out of energy.
DueRemoved(type) ==
    {i \in 1..Len(PrevPopulation(type)) \ Surviving(type) :
        /\ PrevPopulation(type)[i].isPregnant
        /\ PrevPopulation(type)[i].pregnancyTime + Elapsed >= GateGestation(type)}

\* The agents the last tick removed.
Removed(type) == 1..Len(PrevPopulation(type)) \ Surviving(type)

\* C21: the eaten rabbits and the agents left without energy by the behaviour
\* pass are removed before reproduction: they are not in the published
\* population, every newborn of a tick lies by a parent that lived through the
\* tick, a pregnant agent removed in the tick its gestation completes leaves
\* no litter, and no partner of a mating of the tick is among the removed.
PipelineOrder ==
    UpdateRan =>
        \A type \in {"rabbit", "fox"} :
            /\ \A j \in Newborns(type) : \E i \in Delivering(type) :
                  /\ Abs(Population(type)[j].position.x - After(type, i).position.x) <= PosScale
                  /\ Abs(Population(type)[j].position.z - After(type, i).position.z) <= PosScale
            /\ (DueRemoved(type) # {} /\ Delivering(type) = {}) => Newborns(type) = {}
            /\ \A i \in 1..Len(PrevPopulation(type)) :
                  (\/ PrevPopulation(type)[i].id \in Eaten
                   \/ (PrevPopulation(type)[i].isPregnant /\ BehaviourEnergy(type, i) <= 0))
                    => i \in Removed(type)
            /\ Cardinality(Newborns(type)) <= LargestLitter(type) * Cardinality(Delivering(type))
            /\ \A k \in 1..Len(matings) : \A i \in Removed(type) :
                  /\ matings[k].male.id # PrevPopulation(type)[i].id
                  /\ matings[k].female.id # PrevPopulation(type)[i].id

\* A tick that removed a pregnant agent whose gestation it completed.
PipelineOrderWitness ==
    /\ UpdateRan
    /\ \E type \in {"rabbit", "fox"} : DueRemoved(type) # {}

\* C22: findClosestRabbit and findClosestFox return none exactly when the list
\* of candidates is empty, and otherwise the first, in the order of the list,
\* of the candidates at the smallest squared planar distance from the
\* searcher: none is nearer, and none before it is as near.
NearestSearch ==
    op.name = "findClosest" =>
        LET others == op.arg.others
            found == op.result
            d(j) == distanceSquared(op.arg.position, others[j].position)
        IN  /\ found = 0 <=> Len(others) = 0
            /\ found # 0 =>
                  /\ found \in 1..Len(others)
                  /\ \A j \in 1..Len(others) :
                        /\ d(j) >= d(found)
                        /\ j < found => d(j) > d(found)

\* A search among candidates of which a later one is as near as the one found,
\* and an earlier one is farther.
NearestSearchWitness ==
    /\ op.name = "findClosest"
    /\ op.result > 1
    /\ \E j \in 1..Len(op.arg.others) :
          /\ j > op.result
          /\ distanceSquared(op.arg.position, op.arg.others[j].position)
                = distanceSquared(op.arg.position, op.arg.others[op.result].position)

\* The rabbit prev.rabbits[i] had a fox nearer than 6.0, and not at its own
\* place, at the start of the last tick.
Threatened(i) ==
    /\ Len(prev.foxes) > 0
    /\ LET squared == distanceSquared(prev.rabbits[i].position,
                        prev.foxes[Nearest(prev.rabbits[i].position, prev.foxes)].position)
       IN  squared > 0 /\ squared < (6 * PosScale) * (6 * PosScale)

\* The rabbit prev.rabbits[i] had no fox nearer than 6.0 at the start of the
\* last tick.
Unthreatened(i) ==
    \A j \in 1..Len(prev.foxes) :
        distanceSquared(prev.rabbits[i].position, prev.foxes[j].position)
            >= (6 * PosScale) * (6 * PosScale)

\* C23: a rabbit whose nearest fox at the start of the tick is nearer than 6.0
\* and not at its own place leaves the tick with the velocity 3.0 along the
\* line from that fox to itself, whatever the random turn did; a rabbit with
\* no fox nearer than 6.0 leaves the tick as fast as it entered it, to the
\* rounding of the fixed point.
FleeOverride ==
    UpdateRan =>
        \A i \in SurvivingRabbits :
            LET before == prev.rabbits[i]
                after == rabbits[IndexOf(rabbits, before.id)]
                fox == prev.foxes[Nearest(before.position, prev.foxes)]
            IN  /\ Threatened(i) =>
                      /\ HasSpeed(after.velocity, 300)
                      /\ PointsAlong(after.velocity,
                                     Difference(before.position, fox.position))
                /\ Unthreatened(i) =>
                      HasSpeed(after.velocity, Sqrt(PlanarSquared(before.velocity)))

\* A tick in which every wandering agent turned, one rabbit fled from a fox
\* and another, with no fox near, turned and kept its speed.
FleeOverrideWitness ==
    /\ UpdateRan
    /\ \E i \in SurvivingRabbits :
          /\ Threatened(i)
          /\ Turned(prev.rabbits[i].velocity, -1) # prev.rabbits[i].velocity
          /\ HasSpeed(rabbits[IndexOf(rabbits, prev.rabbits[i].id)].velocity, 300)
    /\ \E i \in SurvivingRabbits :
          /\ Unthreatened(i)
          /\ rabbits[IndexOf(rabbits, prev.rabbits[i].id)].velocity
                = Turned(prev.rabbits[i].velocity, -1)
          /\ rabbits[IndexOf(rabbits, prev.rabbits[i].id)].velocity
                # prev.rabbits[i].velocity

\* The fox prev.foxes[i] had no rabbit nearer than 8.0 at the start of the
\* last tick.
NoPreyInSight(i) ==
    \A j \in 1..Len(prev.rabbits) :
        distanceSquared(prev.foxes[i].position, prev.rabbits[j].position)
            >= (8 * PosScale) * (8 * PosScale)

\* C24: a fox that has no rabbit within 8.0 at the start of a tick, or no
\* rabbit at all, leaves the tick with a velocity of length 1.8, also in the
\* ticks after a hunt in which it moved at 3.5.
WanderSpeed ==
    UpdateRan =>
        \A i \in SurvivingFoxes :
            NoPreyInSight(i) =>
                HasSpeed(foxes[IndexOf(foxes, prev.foxes[i].id)].velocity, 180)

\* The fox prev.foxes[i] stood at the place of its nearest rabbit at the start
\* of the last tick.
OnItsPrey(i) ==
    /\ Len(prev.rabbits) > 0
    /\ distanceSquared(prev.foxes[i].position,
          prev.rabbits[Nearest(prev.foxes[i].position, prev.rabbits)].position) = 0

\* The rabbit prev.rabbits[i] stood at the place of its nearest fox at the
\* start of the last tick.
OnItsHunter(i) ==
    /\ Len(prev.foxes) > 0
    /\ distanceSquared(prev.rabbits[i].position,
          prev.foxes[Nearest(prev.rabbits[i].position, prev.foxes)].position) = 0

\* Every number of the agent is defined.
WellFormed(agent) ==
    /\ DOMAIN agent = AgentFields
    /\ DOMAIN agent.position = {"x", "y", "z"}
    /\ DOMAIN agent.velocity = {"x", "y", "z"}
    /\ \A axis \in {"x", "y", "z"} : agent.position[axis] \in Int /\ agent.velocity[axis] \in Int
    /\ agent.energy \in Int
    /\ agent.age \in Int

\* C25: a fox at the very place of its nearest rabbit, or a rabbit at the very
\* place of its nearest fox, at the start of a tick leaves the tick with every
\* field defined and with the velocity it had before the tick.
DegenerateDirection ==
    UpdateRan =>
        /\ \A i \in SurvivingFoxes :
              OnItsPrey(i) =>
                  /\ WellFormed(foxes[IndexOf(foxes, prev.foxes[i].id)])
                  /\ foxes[IndexOf(foxes, prev.foxes[i].id)].velocity = prev.foxes[i].velocity
        /\ \A i \in SurvivingRabbits :
              OnItsHunter(i) =>
                  /\ WellFormed(rabbits[IndexOf(rabbits, prev.rabbits[i].id)])
                  /\ rabbits[IndexOf(rabbits, prev.rabbits[i].id)].velocity
                        = prev.rabbits[i].velocity

\* What the reproduction pass of the last tick charged PrevPopulation(type)[i]:
\* 40 for a birth, 15 for a female's and 10 for a male's mating.
ReproductionCost(type, i) ==
    LET id == PrevPopulation(type)[i].id
    IN  (IF i \in Delivering(type) THEN 40 * EnergyScale ELSE 0)
        + (IF \E k \in 1..Len(matings) : matings[k].female.id = id
           THEN 15 * EnergyScale ELSE 0)
        + (IF \E k \in 1..Len(matings) : matings[k].male.id = id
           THEN 10 * EnergyScale ELSE 0)

\* What the last tick charged the fox prev.foxes[i] for living: 2.5 a second,
\* and 0.8 a second more if pregnant.
Consumption(i) ==
    (25 * Elapsed * (EnergyScale \div TimeScale)) \div 10
    + (IF prev.foxes[i].isPregnant
       THEN (8 * Elapsed * (EnergyScale \div TimeScale)) \div 10 ELSE 0)

\* C26: a fox leaves the behaviour pass of a tick with its energy less the
\* consumption of the tick, 2.5 a second and 0.8 a second more if pregnant;
\* in a tick in which it makes a catch the 60 of the meal are added to that,
\* the sum being capped at 100.
EnergyBalance ==
    (UpdateRan /\ Elapsed >= 0) =>
        \A i \in SurvivingFoxes :
            foxes[IndexOf(foxes, prev.foxes[i].id)].energy + ReproductionCost("fox", i)
                = IF catches[i] # 0
                  THEN Min(100 * EnergyScale,
                           prev.foxes[i].energy - Consumption(i) + 60 * EnergyScale)
                  ELSE prev.foxes[i].energy - Consumption(i)

\* The foxes that received the meal gain in the last tick.
Fed == {i \in 1..Len(catches) : catches[i] # 0}

\* C29: a rabbit eaten in a tick feeds at most one fox: no two foxes report
\* the same eaten id, and as many foxes receive the meal gain as rabbits are
\* removed by predation.
OneMealPerPrey ==
    UpdateRan =>
        /\ \A i \in Fed : \A j \in Fed : i # j => catches[i] # catches[j]
        /\ Cardinality(Fed) = Cardinality(Eaten)

\* The identifiers of the agents the store is created with.
Seeded == 1..(INITIAL_RABBITS + INITIAL_FOXES)

\* The agent with this id is in the population and pregnant.
PregnantNow(id) ==
    \E type \in {"rabbit", "fox"} : \E i \in 1..Len(Population(type)) :
        /\ Population(type)[i].id = id
        /\ Population(type)[i].isPregnant

UnfedEnergy(agent) == 100 * EnergyScale - Div(25 * agent.age * EnergyScale, 10 * TimeScale)

\* C28: once there are no rabbits, and no agent is added, the frames that
\* follow leave no fox, and none appears again; and no fox that mates has as
\* little energy as a fox has that never ate.  The run followed ends after
\* MaxLive frames: the states asked about are those three frames before its
\* end, the frames in which a fox with full energy starves.
PredatorExtinction ==
    /\ (rabbits = <<>> /\ ticks + 3 <= MaxLive) ~> [](foxes = <<>>)
    /\ [](UpdateRan =>
            \A k \in 1..Len(matings) :
                matings[k].female.type = "fox" =>
                    /\ matings[k].female.energy > UnfedEnergy(matings[k].female)
                    /\ matings[k].male.energy > UnfedEnergy(matings[k].male))

\* A frame that began without rabbits and with foxes, and left no fox.
PredatorExtinctionWitness ==
    /\ UpdateRan
    /\ prev.rabbits = <<>>
    /\ prev.foxes # <<>>
    /\ foxes = <<>>

----------------------------------------------------------------------------
\* Short frames.  A run of frames of one second each at the initial speed, long
\* enough for rabbits to come of age, mate and give birth, with agents added
\* on the way.

\* The longest run of short frames followed.
MaxRun == 22

\* useSimulationStore.updateAgents(deltaTime), called by a frame of the run.
Step(deltaTime, rnd) ==
    /\ ticks < MaxRun
    /\ Commit(Updated(deltaTime, rnd))
    /\ prev' = Now
    /\ ticks' = ticks + 1
    /\ op' = [name |-> "updateAgents", arg |-> deltaTime]
    /\ UNCHANGED <<isPaused, speedFactor, commands, controls>>

NextRun ==
    \/ Step(FrameDelta, Calm)
    \/ \E d \in SpawnDraws : AddRabbit(d)
    \/ \E d \in SpawnDraws : AddFox(d)

SpecRun == Init /\ [][NextRun]_vars

\* C30: after a tick whose scaled delta is positive and at most one second
\* every rabbit has energy above 0, both as the behaviour pass leaves it and as
\* the reproduction pass publishes it, and every rabbit that is no longer
\* there was eaten in that tick.
PreyNeverStarve ==
    (UpdateRan /\ Elapsed > 0 /\ Elapsed <= 1 * TimeScale) =>
        /\ \A i \in 1..Len(rabbits) : rabbits[i].energy > 0
        /\ \A i \in 1..Len(prev.rabbits) :
              prev.rabbits[i].id \notin Eaten =>
                  BehaviourEnergy("rabbit", i)
                    + (IF prev.rabbits[i].isPregnant THEN 0
                       ELSE (5 * Elapsed * (EnergyScale \div TimeScale)) \div 10) > 0
        /\ \A i \in 1..Len(prev.rabbits) :
              prev.rabbits[i].id \notin Ids(rabbits) => prev.rabbits[i].id \in Eaten

\* A tick of one second in which a rabbit gave birth.
PreyNeverStarveWitness ==
    /\ UpdateRan
    /\ Elapsed = 1 * TimeScale
    /\ Delivering("rabbit") # {}
    /\ Newborns("rabbit") # {}

====
